---- MODULE Spec2Model ----
\* simplerank: the connection hub (presentation/socket/broadcaster.go), the ranked
\* store and the event log (pkg/cache/cache.go) and the score-update glue
\* (internal/service/leaderboard.go, presentation/subscriber/history.go).
\*
\* The specifications share one state:
\*   Spec          the connection hub with its clients' read and write sides
\*   SpecShutdown  the hub with its shutdown hook
\*   SpecRank      the ranked store (sorted-set operations of appCache)
\*   SpecPipeline  score update -> ranked store -> event log -> history consumer
\*   SpecGroup     the event log: producers, the group and its two consumers
\*   SpecGroupFair SpecGroup with a fair consumer loop
\*   SpecService   leaderboard metadata: update, detail, cache expiry
\*   SpecCache     the key-value cache: Set, Get, Delete
\*   SpecList      the histories table and its paginated listing
EXTENDS Integers, Sequences, FiniteSets, TLC

\* ------------------------------------------------------------------ bounds
\* Capacity of a client's outbound queue. The source allocates 256 slots; the
\* model keeps the queue bounded and scales the capacity down.
SendCap == 2
\* Capacity of the hub's broadcast queue (256 slots in the source), scaled down.
BroadcastCap == 1
\* Number of subscribe / unsubscribe messages the peers send in a run.
MaxInbound == 3
\* Number of Broadcast / BroadcastToUser / BroadcastToAll calls in a run.
MaxBroadcasts == 1
\* Largest n passed to GetTopN and largest radius passed to GetAroundMember.
MaxN == 3
MaxRadius == 1
\* Entries appended to the leaderboard-updates stream.
MaxPublished == 2
\* Calls of EnsureGroup in a run.
MaxEnsure == 2
\* Rows of the histories table, and the pages and page sizes a listing asks for.
MaxHistory == 3
MaxPage == 2
MaxPageSize == 2

\* ------------------------------------------------------------------ universe
Clients == {"c1", "c2"}
Topics == {"lb:42", "lb:7"}
Users == {"u1"}
NoUser == ""
TopicGlobal == "global"
TopicUser == "user:"
MessageTypeEntryUpdate == "entry_update"
MessageTypeSubscribe == "subscribe"
MessageTypeUnsubscribe == "unsubscribe"

\* The inputs of a run: the user id connection c carries (the userId query
\* parameter or the X-User-ID header) and the topics its peer names.
ConnUser(c) == IF c = "c1" THEN "u1" ELSE NoUser
PeerTopics(c) == IF c = "c1" THEN Topics ELSE {"lb:42"}

\* Members in lexical order, and the scores a caller may submit.
MemberOrder == <<"p1", "p2", "p3">>
Members == {MemberOrder[i] : i \in 1..Len(MemberOrder)}
Scores == {100, 150, 200}

\* Leaderboards the repository holds, and the ids a request may name.
Leaderboards == {"42"}
LeaderboardIDs == {"42", "404"}

\* The keys of the key-value cache.
Keys == {"test-key", "test-int"}

\* A Go value handed to Set: its type and its literal; a slice, map or struct
\* is written as its JSON text.
Value(type, lit) == [type |-> type, lit |-> lit]

\* Values of the supported types, those of the tests among them.
Values ==
    {Value("string", "test-value"), Value("string", "42"),
     Value("int", "42"), Value("int64", "9223372036854775807"),
     Value("float64", "3.14159"), Value("bool", "true"), Value("bool", "false"),
     Value("slice", "[\"apple\",\"banana\",\"cherry\"]"),
     Value("map", "{\"a\":1,\"b\":2,\"c\":3}"),
     Value("struct", "{\"name\":\"test\",\"count\":42}")}

\* model.Leaderboard, without the bookkeeping columns of BaseModel.
Leaderboard(id, name, description, expiredAt) ==
    [ID |-> id, Name |-> name, Description |-> description, ExpiredAt |-> expiredAt]

\* A field an UpdateLeaderboardReq leaves out (a nil pointer).
Nil == "<nil>"

\* The requests UpdateLeaderboard may get: each field given or left out.
UpdateLeaderboardReqs ==
    [Name : {Nil, "Monthly"}, Description : {Nil, "top players"},
     ExpiredAt : {Nil, "2027-12-31"}]

\* The consumers of the group: the history subscriber and a second consumer.
HistoryConsumer == "history"

Consumers == {HistoryConsumer, "consumer-2"}

VARIABLES
    \* Ranked store
    board,          \* the sorted set of one leaderboard: member -> score
    rq,             \* the ranked-store query in flight between its two reads
    rres,           \* the result of the query that returned last
    \* Hub
    clients,        \* Hub.clients: topic -> set of clients
    allClients,     \* Hub.allClients
    userClients,    \* Hub.userClients: user id -> set of clients
    broadcast,      \* Hub.broadcast: queued BroadcastMessage values
    panicked,       \* the process died of a run-time panic
    \* Client
    subscriptions,  \* Client.subscriptions
    userID,         \* Client.userID
    send,           \* Client.send: the buffered messages
    closed,         \* Client.send has been closed
    pc,             \* position of the client's readPump
    regTopic,       \* topic of the registration the readPump is handing over
    wpc,            \* position of the client's writePump
    \* the environment
    nInbound,       \* subscribe / unsubscribe messages received so far
    nBroadcast,     \* Broadcast* calls made so far
    \* Hub lifecycle
    ctxDone,        \* the context handed to Hub.Run has been cancelled
    hubRunning,     \* Hub.Run has not returned
    connClosed,     \* Client.conn has been closed by the shutdown hook
    \* the update pipeline
    lbCache,        \* leaderboards cached by getCacheLeaderboard
    lbRepo,         \* the leaderboards table: id -> row
    svc,            \* the last leaderboard metadata call and its outcome
    \* the key-value cache
    kv,             \* key -> the bytes Redis holds, with the value Set was given
    gres,           \* the last Get call and its outcome
    upd,            \* the last UpdateEntryScore call and its outcome
    stream,         \* the leaderboard-updates stream: entry i has id i
    group,          \* the consumer group: created, last delivered id, pending ids
    cpc,            \* position of each consumer's goroutine
    cur,            \* id of the entry each consumer holds
    handled,        \* the handler calls so far: consumer and entry id, in order
    handlerFailed,  \* ids whose handler logged a failure
    history,        \* records the history repository holds
    subStop,        \* Subscriber.Stop has run, and the id delivered last by then
    nEnsure,        \* EnsureGroup calls made so far
    egRes,          \* the last EnsureGroup call: the group it found, the error returned
    startCtxDone,   \* the context of the start-up hook has ended
    recordCalls,    \* the HistorySvc.Record calls so far: entry id, request, context
    hres            \* the last GetList call: the table it read, and what it returned

hubVars == <<clients, allClients, userClients, broadcast, panicked, subscriptions,
             userID, send, closed, pc, regTopic, wpc, nInbound, nBroadcast>>

rankVars == <<board, rq, rres>>

subVars == <<subStop, nEnsure, egRes>>

pipeVars == <<lbCache, upd, stream, group, cpc, cur, handled, handlerFailed, history,
              subVars>>

lifeVars == <<ctxDone, hubRunning, connClosed>>

startVars == <<startCtxDone, recordCalls>>

listVars == <<hres>>

svcVars == <<lbRepo, svc>>

kvVars == <<kv, gres>>

vars == <<hubVars, lifeVars, rankVars, pipeVars, svcVars, kvVars, startVars, listVars>>

notHub == <<lifeVars, rankVars, pipeVars, svcVars, kvVars, startVars, listVars>>
notRank == <<hubVars, lifeVars, pipeVars, svcVars, kvVars, startVars, listVars>>
notPipeline == <<hubVars, lifeVars, rq, rres, svcVars, kvVars, listVars>>
notService == <<hubVars, lifeVars, rq, rres, stream, group, cpc, cur, handled,
                handlerFailed, history, subVars, kvVars, startVars, listVars>>
notCache == <<hubVars, lifeVars, rankVars, pipeVars, svcVars, startVars, listVars>>
notList == <<hubVars, lifeVars, rankVars, pipeVars, svcVars, kvVars, startVars>>

\* ------------------------------------------------------------------ hub: helpers
\* Message, as marshalled by Broadcast / sendMessage (data and timestamp left out).
Message(type, topic) == [type |-> type, topic |-> topic]

BroadcastMessage(topic, user, msg) == [Topic |-> topic, UserID |-> user, Message |-> msg]

\* Client.conn is open: the connection was accepted and neither pump has closed it.
ConnOpen(c) == pc[c] \notin {"none", "done"} /\ wpc[c] = "run" /\ ~connClosed[c]

\* All orders in which a range over the map S may visit its keys.
RangeOrders(S) ==
    {f \in [1..Cardinality(S) -> S] : \A i, j \in 1..Cardinality(S) : f[i] = f[j] => i = j}

\* The target map the broadcast case selects.
TargetClients(m) ==
    IF m.UserID # NoUser THEN userClients[m.UserID]
    ELSE IF m.Topic = "" \/ m.Topic = TopicGlobal THEN allClients
    ELSE clients[m.Topic]

\* One iteration of the broadcast loop for client c. st carries the queues, the
\* closed flags, the target map and whether a send hit a closed queue.
DeliverTo(st, c, msg) ==
    IF st.panic THEN st
    ELSE IF st.closed[c] THEN [st EXCEPT !.panic = TRUE]
    ELSE IF Len(st.send[c]) < SendCap THEN [st EXCEPT !.send[c] = Append(@, msg)]
    ELSE [st EXCEPT !.closed[c] = TRUE, !.targets = @ \ {c}]

RECURSIVE DeliverAll(_, _, _, _)
DeliverAll(st, order, i, msg) ==
    IF i > Len(order) THEN st
    ELSE DeliverAll(DeliverTo(st, order[i], msg), order, i + 1, msg)

\* Client.sendMessage: a non-blocking send on c.send.
SendMessage(c, msg) ==
    IF closed[c] THEN /\ panicked' = TRUE
                      /\ send' = send
    ELSE /\ panicked' = panicked
         /\ send' = IF Len(send[c]) < SendCap
                    THEN [send EXCEPT ![c] = Append(@, msg)]
                    ELSE send

\* ------------------------------------------------------------------ hub: actions
Init ==
    /\ clients = [t \in Topics |-> {}]
    /\ allClients = {}
    /\ userClients = [u \in Users |-> {}]
    /\ broadcast = <<>>
    /\ panicked = FALSE
    /\ subscriptions = [c \in Clients |-> {}]
    /\ userID = [c \in Clients |-> NoUser]
    /\ send = [c \in Clients |-> <<>>]
    /\ closed = [c \in Clients |-> FALSE]
    /\ pc = [c \in Clients |-> "none"]
    /\ regTopic = [c \in Clients |-> ""]
    /\ wpc = [c \in Clients |-> "none"]
    /\ nInbound = 0
    /\ nBroadcast = 0
    /\ ctxDone = FALSE
    /\ hubRunning = TRUE
    /\ connClosed = [c \in Clients |-> FALSE]
    /\ board = <<>>
    /\ rq = [op |-> "none"]
    /\ rres = [op |-> "none"]
    /\ lbCache = {}
    /\ lbRepo = [id \in Leaderboards |-> Leaderboard(id, "Weekly", "", "2026-12-31")]
    /\ svc = [op |-> "none"]
    /\ kv = [key \in Keys |-> <<>>]
    /\ gres = [op |-> "none"]
    /\ upd = [op |-> "none"]
    /\ stream = <<>>
    /\ group = [exists |-> FALSE, last |-> 0, pending |-> {}, createdAt |-> 0]
    /\ cpc = [k \in Consumers |-> "start"]
    /\ cur = [k \in Consumers |-> 0]
    /\ handled = <<>>
    /\ handlerFailed = {}
    /\ history = <<>>
    /\ subStop = [done |-> FALSE, last |-> 0]
    /\ nEnsure = 0
    /\ egRes = [op |-> "none"]
    /\ startCtxDone = FALSE
    /\ recordCalls = <<>>
    /\ hres = [op |-> "none"]

\* HandleWebSocket: a connection is accepted, its client created and both pumps started.
HandleWebSocket(c, u) ==
    /\ ~panicked
    /\ pc[c] = "none"
    /\ userID' = [userID EXCEPT ![c] = u]
    /\ pc' = [pc EXCEPT ![c] = "read"]
    /\ wpc' = [wpc EXCEPT ![c] = "run"]
    /\ UNCHANGED <<clients, allClients, userClients, broadcast, panicked, subscriptions,
                   send, closed, regTopic>>
    /\ UNCHANGED <<nInbound, nBroadcast>>
    /\ UNCHANGED notHub

\* handleMessage, subscribe: the topic is recorded and the registration offered to the hub.
RecvSubscribe(c, t) ==
    /\ ~panicked
    /\ nInbound < MaxInbound
    /\ pc[c] = "read"
    /\ ConnOpen(c)
    /\ subscriptions' = [subscriptions EXCEPT ![c] = @ \cup {t}]
    /\ regTopic' = [regTopic EXCEPT ![c] = t]
    /\ pc' = [pc EXCEPT ![c] = "register"]
    /\ UNCHANGED <<clients, allClients, userClients, broadcast, panicked, userID, send,
                   closed, wpc>>
    /\ nInbound' = nInbound + 1
    /\ UNCHANGED nBroadcast
    /\ UNCHANGED notHub

\* The topic's set made anew at every registration.
RegisterTopicFresh(cl, c, t) == [cl EXCEPT ![t] = {c}]

\* The register case on h.clients: the topic's set is made if it is missing,
\* and the client added to it.
RegisterTopic(cl, c, t) == [cl EXCEPT ![t] = @ \cup {c}]

\* Hub.Run, register case.
HubRegister(c) ==
    /\ ~panicked
    /\ hubRunning
    /\ pc[c] = "register"
    /\ clients' = RegisterTopic(clients, c, regTopic[c])
    /\ allClients' = allClients \cup {c}
    /\ userClients' = IF userID[c] # NoUser
                      THEN [userClients EXCEPT ![userID[c]] = @ \cup {c}]
                      ELSE userClients
    /\ pc' = [pc EXCEPT ![c] = "confirm"]
    /\ UNCHANGED <<broadcast, panicked, subscriptions, userID, send, closed, regTopic, wpc>>
    /\ UNCHANGED <<nInbound, nBroadcast>>
    /\ UNCHANGED notHub

\* handleMessage, subscribe: the confirmation sent once the hub took the registration.
ConfirmSubscribe(c) ==
    /\ ~panicked
    /\ pc[c] = "confirm"
    /\ SendMessage(c, Message(MessageTypeSubscribe, regTopic[c]))
    /\ regTopic' = [regTopic EXCEPT ![c] = ""]
    /\ pc' = [pc EXCEPT ![c] = "read"]
    /\ UNCHANGED <<clients, allClients, userClients, broadcast, subscriptions, userID,
                   closed, wpc>>
    /\ UNCHANGED <<nInbound, nBroadcast>>
    /\ UNCHANGED notHub

\* handleMessage, unsubscribe: the topic is dropped from the client's own set and
\* the confirmation sent; the hub is not told.
RecvUnsubscribe(c, t) ==
    /\ ~panicked
    /\ nInbound < MaxInbound
    /\ pc[c] = "read"
    /\ ConnOpen(c)
    /\ subscriptions' = [subscriptions EXCEPT ![c] = @ \ {t}]
    /\ SendMessage(c, Message(MessageTypeUnsubscribe, t))
    /\ UNCHANGED <<clients, allClients, userClients, broadcast, userID, closed,
                   pc, regTopic, wpc>>
    /\ nInbound' = nInbound + 1
    /\ UNCHANGED nBroadcast
    /\ UNCHANGED notHub

\* readPump: Receive fails (peer gone, deadline passed, transport closed); the
\* deferred function offers the client to the hub's unregister channel.
ReadEnd(c) ==
    /\ ~panicked
    /\ pc[c] = "read"
    /\ pc' = [pc EXCEPT ![c] = "unregister"]
    /\ UNCHANGED <<clients, allClients, userClients, broadcast, panicked, subscriptions,
                   userID, send, closed, regTopic, wpc>>
    /\ UNCHANGED <<nInbound, nBroadcast>>
    /\ UNCHANGED notHub

\* Hub.Run, unregister case, and the readPump's c.conn.Close() that follows the
\* hand-over. Closing a queue that is already closed panics.
HubUnregister(c) ==
    /\ ~panicked
    /\ hubRunning
    /\ pc[c] = "unregister"
    /\ allClients' = allClients \ {c}
    /\ userClients' = IF userID[c] # NoUser
                      THEN [userClients EXCEPT ![userID[c]] = @ \ {c}]
                      ELSE userClients
    /\ clients' = [t \in Topics |-> IF t \in subscriptions[c] THEN clients[t] \ {c}
                                    ELSE clients[t]]
    /\ IF closed[c]
       THEN /\ panicked' = TRUE
            /\ UNCHANGED <<closed, pc>>
       ELSE /\ closed' = [closed EXCEPT ![c] = TRUE]
            /\ pc' = [pc EXCEPT ![c] = "done"]
            /\ UNCHANGED panicked
    /\ UNCHANGED <<broadcast, subscriptions, userID, send, regTopic, wpc>>
    /\ UNCHANGED <<nInbound, nBroadcast>>
    /\ UNCHANGED notHub

\* A receive that takes the newest message of the queue.
ReceiveNewest(q) == [message |-> q[Len(q)], rest |-> SubSeq(q, 1, Len(q) - 1)]

\* message, ok := <-c.send on a queue that holds a message: the oldest one is
\* taken, the others stay in their order.
Receive(q) == [message |-> Head(q), rest |-> Tail(q)]

\* writePump: one message taken from c.send and written to the transport.
WriteMessage(c) ==
    /\ ~panicked
    /\ wpc[c] = "run"
    /\ send[c] # <<>>
    /\ ConnOpen(c)
    /\ send' = [send EXCEPT ![c] = Receive(@).rest]
    /\ UNCHANGED <<clients, allClients, userClients, broadcast, panicked, subscriptions,
                   userID, closed, pc, regTopic, wpc>>
    /\ UNCHANGED <<nInbound, nBroadcast>>
    /\ UNCHANGED notHub

\* writePump: the queue is closed and drained, or a write to a closed transport
\* fails: the transport is closed and the pump returns.
WriteEnd(c) ==
    /\ ~panicked
    /\ wpc[c] = "run"
    /\ \/ send[c] = <<>> /\ closed[c]
       \/ send[c] # <<>> /\ ~ConnOpen(c)
    /\ wpc' = [wpc EXCEPT ![c] = "done"]
    /\ UNCHANGED <<clients, allClients, userClients, broadcast, panicked, subscriptions,
                   userID, send, closed, pc, regTopic>>
    /\ UNCHANGED <<nInbound, nBroadcast>>
    /\ UNCHANGED notHub

\* Hub.Broadcast: the enveloped message is queued for the hub loop.
Broadcast(topic) ==
    /\ ~panicked
    /\ nBroadcast < MaxBroadcasts
    /\ Len(broadcast) < BroadcastCap
    /\ broadcast' = Append(broadcast,
           BroadcastMessage(topic, NoUser, Message(MessageTypeEntryUpdate, topic)))
    /\ UNCHANGED <<clients, allClients, userClients, panicked, subscriptions, userID, send,
                   closed, pc, regTopic, wpc>>
    /\ nBroadcast' = nBroadcast + 1
    /\ UNCHANGED nInbound
    /\ UNCHANGED notHub

\* Hub.BroadcastToUser.
BroadcastToUser(u) ==
    /\ ~panicked
    /\ nBroadcast < MaxBroadcasts
    /\ Len(broadcast) < BroadcastCap
    /\ broadcast' = Append(broadcast,
           BroadcastMessage("", u, Message(MessageTypeEntryUpdate, TopicUser \o u)))
    /\ UNCHANGED <<clients, allClients, userClients, panicked, subscriptions, userID, send,
                   closed, pc, regTopic, wpc>>
    /\ nBroadcast' = nBroadcast + 1
    /\ UNCHANGED nInbound
    /\ UNCHANGED notHub

\* Hub.BroadcastToAll.
BroadcastToAll ==
    /\ ~panicked
    /\ nBroadcast < MaxBroadcasts
    /\ Len(broadcast) < BroadcastCap
    /\ broadcast' = Append(broadcast,
           BroadcastMessage(TopicGlobal, NoUser, Message(MessageTypeEntryUpdate, TopicGlobal)))
    /\ UNCHANGED <<clients, allClients, userClients, panicked, subscriptions, userID, send,
                   closed, pc, regTopic, wpc>>
    /\ nBroadcast' = nBroadcast + 1
    /\ UNCHANGED nInbound
    /\ UNCHANGED notHub

\* Hub.Run, broadcast case: every client of the target map is offered the message
\* without blocking; a client whose queue is full has its queue closed and is
\* deleted from the target map, and from that map only.
HubBroadcast ==
    /\ ~panicked
    /\ hubRunning
    /\ broadcast # <<>>
    /\ LET m == Head(broadcast)
           target == TargetClients(m)
       IN \E order \in RangeOrders(target) :
            LET st0 == [send |-> send, closed |-> closed, targets |-> target, panic |-> FALSE]
                st == DeliverAll(st0, order, 1, m.Message)
            IN /\ send' = st.send
               /\ closed' = st.closed
               /\ panicked' = st.panic
               /\ userClients' = IF m.UserID # NoUser
                                 THEN [userClients EXCEPT ![m.UserID] = st.targets]
                                 ELSE userClients
               /\ allClients' = IF m.UserID = NoUser /\ (m.Topic = "" \/ m.Topic = TopicGlobal)
                                THEN st.targets ELSE allClients
               /\ clients' = IF m.UserID = NoUser /\ m.Topic # "" /\ m.Topic # TopicGlobal
                             THEN [clients EXCEPT ![m.Topic] = st.targets]
                             ELSE clients
    /\ broadcast' = Tail(broadcast)
    /\ UNCHANGED <<subscriptions, userID, pc, regTopic, wpc>>
    /\ UNCHANGED <<nInbound, nBroadcast>>
    /\ UNCHANGED notHub

Next ==
    \/ \E c \in Clients : HandleWebSocket(c, ConnUser(c))
    \/ \E c \in Clients : \E t \in PeerTopics(c) : RecvSubscribe(c, t)
    \/ \E c \in Clients : HubRegister(c)
    \/ \E c \in Clients : ConfirmSubscribe(c)
    \/ \E c \in Clients : \E t \in PeerTopics(c) : RecvUnsubscribe(c, t)
    \/ \E c \in Clients : ReadEnd(c)
    \/ \E c \in Clients : HubUnregister(c)
    \/ \E c \in Clients : WriteMessage(c)
    \/ \E c \in Clients : WriteEnd(c)
    \/ \E t \in Topics : Broadcast(t)
    \/ \E u \in Users : BroadcastToUser(u)
    \/ BroadcastToAll
    \/ HubBroadcast

Spec == Init /\ [][Next]_vars

\* ------------------------------------------------------------------ hub: shutdown
\* The lock each case of the hub loop takes on the registry.
LockHeld(case) ==
    CASE case = "register" -> "Lock"
      [] case = "unregister" -> "Lock"
      [] case = "broadcast" -> "RLock"
      [] OTHER -> "none"

\* RegisterHooks, OnStop: the hub's context is cancelled, then the transport of
\* every client found in a topic set is closed.
OnStop ==
    /\ ~panicked
    /\ ~ctxDone
    /\ ctxDone' = TRUE
    /\ connClosed' = [c \in Clients |->
                        connClosed[c] \/ \E t \in Topics : c \in clients[t]]
    /\ UNCHANGED hubRunning
    /\ UNCHANGED <<hubVars, rankVars, pipeVars, svcVars, kvVars, startVars, listVars>>

\* Hub.Run, ctx.Done case: the loop returns. While other cases are ready too the
\* select may still take them first.
HubStop ==
    /\ ~panicked
    /\ ctxDone
    /\ hubRunning
    /\ hubRunning' = FALSE
    /\ UNCHANGED <<ctxDone, connClosed>>
    /\ UNCHANGED <<hubVars, rankVars, pipeVars, svcVars, kvVars, startVars, listVars>>

NextShutdown ==
    \/ Next
    \/ OnStop
    \/ HubStop

SpecShutdown == Init /\ [][NextShutdown]_vars

\* ------------------------------------------------------------------ ranked store: the sorted set
\* Lexical order of member identifiers.
LexIndex(m) == CHOOSE i \in 1..Len(MemberOrder) : MemberOrder[i] = m

LexLess(a, b) == LexIndex(a) < LexIndex(b)

\* The sorted set's order: ascending by score, members of equal score in
\* ascending lexical order.
ZLess(b, x, y) == b[x] < b[y] \/ (b[x] = b[y] /\ LexLess(x, y))

ZCard(b) == Cardinality(DOMAIN b)

\* ZRANK: the 0-based position of m in ascending order.
ZRank(b, m) == Cardinality({x \in DOMAIN b : ZLess(b, x, m)})

\* The position ZRANK would give: counted from the lowest score.
ZRevRankAscending(b, m) == ZRank(b, m)

\* ZREVRANK: the 0-based position of m counted from the highest score; reversing
\* the order reverses the order of equal scores too.
ZRevRank(b, m) == ZCard(b) - 1 - ZRank(b, m)

\* ZADD and ZREM.
\* ZADD with the NX flag: a member already in the set keeps its score.
ZAddNX(b, m, s) ==
    [x \in DOMAIN b \cup {m} |-> IF x = m /\ m \notin DOMAIN b THEN s ELSE b[x]]

\* ZADD without flags: the member is added, or its score replaced.
ZAdd(b, m, s) == [x \in DOMAIN b \cup {m} |-> IF x = m THEN s ELSE b[x]]

\* A removal by score: every member tied with m goes with it.
ZRemByScore(b, m) ==
    IF m \in DOMAIN b THEN [x \in {y \in DOMAIN b : b[y] # b[m]} |-> b[x]] ELSE b

\* ZREM: the member is removed; an absent member is not an error.
ZRem(b, m) == [x \in DOMAIN b \ {m} |-> b[x]]

LeaderboardEntry(m, s) == [Member |-> m, Score |-> s]

\* ZREVRANGE start stop WITHSCORES, with the server's index rules: a negative
\* index counts from the end, the range is clamped to the set, and an empty
\* range is no error.
ZRevRangeWithScores(b, start, stop) ==
    LET n == ZCard(b)
        s1 == IF start < 0 THEN n + start ELSE start
        e1 == IF stop < 0 THEN n + stop ELSE stop
        s2 == IF s1 < 0 THEN 0 ELSE s1
        e2 == IF e1 >= n THEN n - 1 ELSE e1
    IN IF s2 > e1 \/ s2 >= n THEN <<>>
       ELSE [i \in 1..(e2 - s2 + 1) |->
               LET m == CHOOSE x \in DOMAIN b : ZRevRank(b, x) = s2 + i - 1
               IN LeaderboardEntry(m, b[m])]

\* ------------------------------------------------------------------ ranked store: appCache
NoQuery == [op |-> "none"]

\* appCache.AddScore: one ZADD; the call returns ZADD's error, which is nil.
\* The returned result records the call and the board it found.
AddScore(m, s) ==
    /\ board' = ZAdd(board, m, s)
    /\ rres' = [op |-> "AddScore", member |-> m, score |-> s, err |-> FALSE,
                before |-> board]
    /\ UNCHANGED rq
    /\ UNCHANGED notRank

\* appCache.RemoveMember: one ZREM; removing an absent member is no error.
RemoveMember(m) ==
    /\ board' = ZRem(board, m)
    /\ rres' = [op |-> "RemoveMember", member |-> m, err |-> FALSE, before |-> board]
    /\ UNCHANGED rq
    /\ UNCHANGED notRank

\* A stop index that is one too far.
TopNStopInclusive(n) == n

\* The stop index GetTopN hands to ZREVRANGE.
TopNStop(n) == n - 1

\* appCache.GetTopN: one read of the sorted set.
GetTopN(n) ==
    /\ rq.op = "none"
    /\ rres' = [op |-> "GetTopN", n |-> n, err |-> FALSE, seen |-> board,
                entries |-> ZRevRangeWithScores(board, 0, TopNStop(n))]
    /\ UNCHANGED <<board, rq>>
    /\ UNCHANGED notRank

\* ZREVRANK's reply with an absent member answered as position 0.
ZRevRankResultNilAsZero(b, m) ==
    IF m \in DOMAIN b THEN [err |-> FALSE, rank |-> ZRevRank(b, m)]
    ELSE [err |-> FALSE, rank |-> 0]

\* ZRevRank(...).Result(): redis.Nil, an error, for a member that is not in the
\* sorted set (or a key that does not exist), its 0-based position otherwise.
ZRevRankResult(b, m) ==
    IF m \in DOMAIN b THEN [err |-> FALSE, rank |-> ZRevRank(b, m)]
    ELSE [err |-> TRUE]

\* appCache.GetRank, first read: ZREVRANK. An absent member is an error.
GetRankRank(m) ==
    /\ rq.op = "none"
    /\ LET reply == ZRevRankResult(board, m)
       IN IF ~reply.err
          THEN /\ rq' = [op |-> "GetRank", member |-> m, rank |-> reply.rank,
                         seen |-> board]
               /\ rres' = NoQuery
          ELSE /\ rres' = [op |-> "GetRank", member |-> m, err |-> TRUE,
                           seen |-> board]
               /\ UNCHANGED rq
    /\ UNCHANGED board
    /\ UNCHANGED notRank

\* The rank returned without the shift.
ZeroBased(rank) == rank

\* The rank GetRank returns for ZREVRANK's 0-based position.
OneBased(rank) == rank + 1

\* appCache.GetRank, second read: ZSCORE, and the 1-based rank returned.
GetRankScore ==
    /\ rq.op = "GetRank"
    /\ rres' = IF rq.member \in DOMAIN board
               THEN [op |-> "GetRank", member |-> rq.member, err |-> FALSE,
                     rank |-> OneBased(rq.rank), score |-> board[rq.member],
                     seen |-> rq.seen, stable |-> board = rq.seen]
               ELSE [op |-> "GetRank", member |-> rq.member, err |-> TRUE,
                     seen |-> rq.seen]
    /\ rq' = NoQuery
    /\ UNCHANGED board
    /\ UNCHANGED notRank

\* appCache.GetAroundMember, first read: ZREVRANK.
GetAroundRank(m, radius) ==
    /\ rq.op = "none"
    /\ LET reply == ZRevRankResult(board, m)
       IN IF ~reply.err
          THEN /\ rq' = [op |-> "GetAroundMember", member |-> m, radius |-> radius,
                         rank |-> reply.rank, seen |-> board]
               /\ rres' = NoQuery
          ELSE /\ rres' = [op |-> "GetAroundMember", member |-> m, err |-> TRUE,
                           seen |-> board]
               /\ UNCHANGED rq
    /\ UNCHANGED board
    /\ UNCHANGED notRank

\* The window start without the clamp.
WindowStartUnclamped(rank, radius) == rank - radius

\* The window start GetAroundMember computes: never above the first position.
WindowStart(rank, radius) == IF rank - radius < 0 THEN 0 ELSE rank - radius

\* appCache.GetAroundMember, second read: ZREVRANGE over the clamped window.
GetAroundRange ==
    /\ rq.op = "GetAroundMember"
    /\ LET start == WindowStart(rq.rank, rq.radius)
           end == rq.rank + rq.radius
       IN rres' = [op |-> "GetAroundMember", member |-> rq.member, radius |-> rq.radius,
                   err |-> FALSE, rank |-> rq.rank, seen |-> board,
                   stable |-> board = rq.seen,
                   entries |-> ZRevRangeWithScores(board, start, end)]
    /\ rq' = NoQuery
    /\ UNCHANGED board
    /\ UNCHANGED notRank

NextRank ==
    \/ \E m \in Members, s \in Scores : AddScore(m, s)
    \/ \E m \in Members : RemoveMember(m)
    \/ \E n \in 0..MaxN : GetTopN(n)
    \/ \E m \in Members : GetRankRank(m)
    \/ GetRankScore
    \/ \E m \in Members, radius \in 0..MaxRadius : GetAroundRank(m, radius)
    \/ GetAroundRange

SpecRank == Init /\ [][NextRank]_vars

\* ------------------------------------------------------------------ update pipeline
CreateHistoryReq(lb, entry, score) ==
    [LeaderboardID |-> lb, EntryID |-> entry, Score |-> score]

\* A value of another type.
Text(t) == [Text |-> t]

\* What a producer may hand to Publish: an update event, or a value of another type.
Payloads == {CreateHistoryReq("42", "p1", 100), Text("ping")}

\* gob encoding: the bytes carry the type of the value with the value.
GobEncode(message) ==
    [type |-> IF "EntryID" \in DOMAIN message THEN "CreateHistoryReq" ELSE "string",
     value |-> message]

\* decodeMessage[dto.CreateHistoryReq]: the "data" field decoded by gob; bytes
\* of another type do not decode.
decodeMessage(values) ==
    IF values.data.type = "CreateHistoryReq"
    THEN [err |-> FALSE, req |-> values.data.value]
    ELSE [err |-> TRUE]

\* getCacheLeaderboard with a not-found answer that carries no error.
getCacheLeaderboardNilError(lb) ==
    LET cached == {e \in lbCache : e.ID = lb}
    IN IF cached # {}
       THEN [code |-> "", leaderboard |-> <<CHOOSE e \in cached : TRUE>>, cache |-> lbCache]
       ELSE IF lb \in DOMAIN lbRepo
       THEN [code |-> "", leaderboard |-> <<lbRepo[lb]>>,
             cache |-> lbCache \cup {lbRepo[lb]}]
       ELSE [code |-> "", leaderboard |-> <<>>, cache |-> lbCache]

\* LeaderBoardSvc.getCacheLeaderboard: the cached leaderboard, else the
\* repository's row, which is then cached; an unknown id is an error and no
\* leaderboard (the empty sequence stands for the nil pointer).
getCacheLeaderboard(lb) ==
    LET cached == {e \in lbCache : e.ID = lb}
    IN IF cached # {}
       THEN [code |-> "", leaderboard |-> <<CHOOSE e \in cached : TRUE>>, cache |-> lbCache]
       ELSE IF lb \in DOMAIN lbRepo
       THEN [code |-> "", leaderboard |-> <<lbRepo[lb]>>,
             cache |-> lbCache \cup {lbRepo[lb]}]
       ELSE [code |-> "ErrLeaderboardNotFound", leaderboard |-> <<>>, cache |-> lbCache]

\* A failed AddScore reported as success.
ScoreUpdateErrSwallowed(failed) == ""

\* The error UpdateEntryScore returns for the outcome of cache.AddScore.
ScoreUpdateErr(failed) == IF failed THEN "ErrUpdateScore" ELSE ""

\* LeaderBoardSvc.UpdateEntryScore: look the leaderboard up, set the score, return.
\* addErr: the ranked store fails the AddScore.
UpdateEntryScore(lb, entry, score, addErr) ==
    LET found == getCacheLeaderboard(lb)
        returned == found.code # "" \/ found.leaderboard = <<>>
        failed == ~returned /\ addErr
        code == IF returned THEN found.code ELSE ScoreUpdateErr(failed)
    IN /\ lbCache' = found.cache
       /\ board' = IF returned \/ failed THEN board ELSE ZAdd(board, entry, score)
       /\ upd' = [op |-> "UpdateEntryScore", lb |-> lb, entry |-> entry,
                  score |-> score, err |-> code # "", code |-> code,
                  storeFailed |-> failed]
       /\ UNCHANGED <<stream, group, cpc, cur, handled, handlerFailed, history>>
       /\ UNCHANGED subVars
       /\ UNCHANGED notPipeline
       /\ UNCHANGED startVars

\* UpdateLeaderboardReq.ToModel: the fields given, and their names.
ToModel(req) ==
    [model |-> [f \in DOMAIN req |-> IF req[f] = Nil THEN "" ELSE req[f]],
     fields |-> {f \in DOMAIN req : req[f] # Nil}]

\* Repository.Update: the selected columns of the row take the given values.
RepoUpdate(repo, id, value, fields) ==
    [repo EXCEPT ![id] = [f \in DOMAIN @ |-> IF f \in fields THEN value[f] ELSE @[f]]]

\* LeaderBoardSvc.UpdateLeaderboard: look the leaderboard up, write the given
\* fields to the repository. repoErr: the repository fails the update.
UpdateLeaderboard(lb, req, repoErr) ==
    LET found == getCacheLeaderboard(lb)
        returned == found.code # "" \/ found.leaderboard = <<>>
        updated == ToModel(req)
        write == ~returned /\ updated.fields # {}
        code == IF returned THEN found.code
                ELSE IF write /\ repoErr THEN "ErrUpdateLeaderboard" ELSE ""
    IN /\ lbCache' = found.cache
       /\ lbRepo' = IF write /\ ~repoErr
                    THEN RepoUpdate(lbRepo, lb, updated.model, updated.fields)
                    ELSE lbRepo
       /\ svc' = [op |-> "UpdateLeaderboard", id |-> lb, req |-> req, code |-> code]
       /\ UNCHANGED <<board, upd>>
       /\ UNCHANGED notService

\* LeaderboardDto.FromModel, and the top entries GetLeaderboardDetail adds.
FromModel(m, entries) ==
    [ID |-> m.ID, Name |-> m.Name, Description |-> m.Description,
     ExpiredAt |-> m.ExpiredAt, TopEntries |-> entries]

\* LeaderBoardSvc.GetLeaderboardDetail: the leaderboard getCacheLeaderboard
\* gives, with the top 100 of its board. The result keeps the row the table
\* held at the time of the call.
GetLeaderboardDetail(lb) ==
    LET found == getCacheLeaderboard(lb)
    IN /\ lbCache' = found.cache
       /\ svc' = IF found.code # ""
                 THEN [op |-> "GetLeaderboardDetail", id |-> lb, code |-> found.code]
                 ELSE [op |-> "GetLeaderboardDetail", id |-> lb, code |-> "",
                       dto |-> FromModel(found.leaderboard[1],
                                         ZRevRangeWithScores(board, 0, TopNStop(100))),
                       row |-> lbRepo[lb]]
       /\ UNCHANGED <<board, upd, lbRepo>>
       /\ UNCHANGED notService

\* The cached leaderboard reaches its time to live (cache.DefaultTTL).
CacheExpire(lb) ==
    /\ \E e \in lbCache : e.ID = lb
    /\ lbCache' = {e \in lbCache : e.ID # lb}
    /\ UNCHANGED <<board, upd, lbRepo, svc>>
    /\ UNCHANGED notService

\* appCache.Publish: XADD of the encoded message under the field "data".
Publish(message) ==
    /\ Len(stream) < MaxPublished
    /\ stream' = Append(stream, [data |-> GobEncode(message)])
    /\ UNCHANGED <<board, lbCache, upd, group, cpc, cur, handled, handlerFailed, history>>
    /\ UNCHANGED subVars
    /\ UNCHANGED notPipeline
    /\ UNCHANGED startVars

\* XGROUP CREATE ... MKSTREAM at "$": a new group starts at the tail of the
\* stream with nothing pending; an existing group is refused with BUSYGROUP.
\* XGROUP CREATE at "0": the new group starts before the first entry.
XGroupCreateFromStart(g, s) ==
    IF g.exists THEN [group |-> g, err |-> "BUSYGROUP"]
    ELSE [group |-> [exists |-> TRUE, last |-> 0, pending |-> {},
                     createdAt |-> Len(s)],
          err |-> ""]

XGroupCreateMkStream(g, s) ==
    IF g.exists THEN [group |-> g, err |-> "BUSYGROUP"]
    ELSE [group |-> [exists |-> TRUE, last |-> Len(s), pending |-> {},
                     createdAt |-> Len(s)],
          err |-> ""]

\* Every error of XGROUP CREATE handed back to the caller.
EnsureGroupErrStrict(err) == err

\* The error EnsureGroup returns: BUSYGROUP counts as success.
EnsureGroupErr(err) == IF err = "BUSYGROUP" THEN "" ELSE err

\* appCache.EnsureGroup.
EnsureGroupCall ==
    LET created == XGroupCreateMkStream(group, stream)
    IN /\ nEnsure < MaxEnsure
       /\ group' = created.group
       /\ egRes' = [op |-> "EnsureGroup", before |-> group,
                    err |-> EnsureGroupErr(created.err)]
       /\ nEnsure' = nEnsure + 1

\* subscribeToLeaderboardUpdates: EnsureGroup, then Subscribe starts the loop; an
\* error of EnsureGroup is returned and no loop is started.
EnsureGroup(k) ==
    /\ cpc[k] = "start"
    /\ EnsureGroupCall
    /\ cpc' = [cpc EXCEPT ![k] = IF egRes'.err = "" THEN "read" ELSE "failed"]
    /\ UNCHANGED <<board, lbCache, upd, stream, cur, handled, handlerFailed, history, subStop>>
    /\ UNCHANGED notPipeline
    /\ UNCHANGED startVars

\* EnsureGroup called by another subscriber on the same stream and group.
EnsureGroupAgain ==
    /\ EnsureGroupCall
    /\ UNCHANGED <<board, lbCache, upd, stream, cpc, cur, handled, handlerFailed, history, subStop>>
    /\ UNCHANGED notPipeline
    /\ UNCHANGED startVars

\* Subscriber.Stop: logs and returns.
Stop ==
    /\ cpc[HistoryConsumer] # "start"
    /\ ~subStop.done
    /\ subStop' = [done |-> TRUE, last |-> group.last]
    /\ UNCHANGED <<board, lbCache, upd, stream, group, cpc, cur, handled, handlerFailed, history,
                   nEnsure, egRes>>
    /\ UNCHANGED notPipeline
    /\ UNCHANGED startVars

\* A read that hands out the oldest pending entry before any new one.
NextDeliveryPending(g, s) ==
    IF g.pending # {} THEN CHOOSE id \in g.pending : \A other \in g.pending : id <= other
    ELSE g.last + 1

\* A read from "$": only the newest entry of the stream.
NextDeliveryNewest(g, s) == Len(s)

\* The id ">" asks for: the first entry never delivered to the group.
NextDelivery(g, s) == g.last + 1

\* appCache.Subscribe, XREADGROUP ">" COUNT 1 BLOCK 0: waits for an entry never
\* delivered to the group, which enters the pending list.
XReadGroup(k) ==
    /\ cpc[k] = "read"
    /\ group.exists
    /\ group.last < Len(stream)
    /\ LET id == NextDelivery(group, stream)
       IN /\ id \in 1..Len(stream)
          /\ cur' = [cur EXCEPT ![k] = id]
          /\ group' = [group EXCEPT !.last = id, !.pending = @ \cup {id}]
    /\ cpc' = [cpc EXCEPT ![k] = "handle"]
    /\ UNCHANGED <<board, lbCache, upd, stream, handled, handlerFailed, history>>
    /\ UNCHANGED subVars
    /\ UNCHANGED notPipeline
    /\ UNCHANGED startVars

\* RegisterHooks, OnStart: the hook hands the context of the start-up to
\* Subscriber.Start and returns once the loop is started; the framework ends
\* that context when the start-up is over.
StartupDone ==
    /\ cpc[HistoryConsumer] # "start"
    /\ ~startCtxDone
    /\ startCtxDone' = TRUE
    /\ UNCHANGED recordCalls
    /\ UNCHANGED pipeVars
    /\ UNCHANGED <<board, notPipeline>>

\* The context the handler closure captured: the one Start was called with.
HandlerContext == IF startCtxDone THEN "done" ELSE "live"

\* Repository.Create under a context: a write on a context that has ended
\* fails; otherwise the database decides.
Create(ctx, created) == ctx = "live" /\ created

\* HistorySvc.Record is called once for a payload that decoded, with the
\* decoded request and the handler's context.
Record(id, decoded, ctx) ==
    IF decoded.err THEN recordCalls
    ELSE Append(recordCalls, [id |-> id, req |-> decoded.req, ctx |-> ctx])

\* The history handler: decode, then HistorySvc.Record, whose repository write
\* may fail; either failure is logged and the handler returns.
Handler(k, created) ==
    /\ cpc[k] = "handle"
    /\ handled' = Append(handled, [consumer |-> k, id |-> cur[k]])
    /\ LET decoded == decodeMessage(stream[cur[k]])
       IN IF decoded.err
          THEN /\ handlerFailed' = handlerFailed \cup {cur[k]}
               /\ UNCHANGED history
          ELSE IF ~Create(HandlerContext, created)
          THEN /\ handlerFailed' = handlerFailed \cup {cur[k]}
               /\ UNCHANGED history
          ELSE /\ history' = Append(history, decoded.req)
               /\ UNCHANGED handlerFailed
    /\ recordCalls' = Record(cur[k], decodeMessage(stream[cur[k]]), HandlerContext)
    /\ cpc' = [cpc EXCEPT ![k] = "ack"]
    /\ UNCHANGED <<board, lbCache, upd, stream, group, cur>>
    /\ UNCHANGED subVars
    /\ UNCHANGED notPipeline
    /\ UNCHANGED startCtxDone

\* An XACK sent while the handler has the entry.
XAckWhileHandling(k) ==
    /\ cpc[k] = "handle"
    /\ group' = [group EXCEPT !.pending = @ \ {cur[k]}]
    /\ cpc' = [cpc EXCEPT ![k] = "read"]
    /\ UNCHANGED <<board, lbCache, upd, stream, cur, handled, handlerFailed, history>>
    /\ UNCHANGED subVars
    /\ UNCHANGED notPipeline
    /\ UNCHANGED startVars

\* appCache.Subscribe, after the handler returned: XACK, whatever the handler did.
XAck(k) ==
    /\ cpc[k] = "ack"
    /\ group' = [group EXCEPT !.pending = @ \ {cur[k]}]
    /\ cpc' = [cpc EXCEPT ![k] = "read"]
    /\ UNCHANGED <<board, lbCache, upd, stream, cur, handled, handlerFailed, history>>
    /\ UNCHANGED subVars
    /\ UNCHANGED notPipeline
    /\ UNCHANGED startVars

NextPipeline ==
    \/ \E lb \in LeaderboardIDs, entry \in Members, score \in Scores :
          UpdateEntryScore(lb, entry, score, FALSE)
    \/ \E message \in Payloads : Publish(message)
    \/ EnsureGroup(HistoryConsumer)
    \/ XReadGroup(HistoryConsumer)
    \/ \E created \in BOOLEAN : Handler(HistoryConsumer, created)
    \/ XAck(HistoryConsumer)
    \/ Stop
    \/ StartupDone

SpecPipeline == Init /\ [][NextPipeline]_vars

\* json.Marshal: a string is quoted, everything else is its literal.
JSONMarshal(value) ==
    IF value.type = "string" THEN "\"" \o value.lit \o "\"" ELSE value.lit

\* json.Unmarshal into a pointer of the given type: the value of that type
\* whose JSON text this is, or an error.
JSONUnmarshal(text, type) ==
    LET fits == {v \in Values : v.type = type /\ JSONMarshal(v) = text}
    IN IF fits = {} THEN [err |-> TRUE]
       ELSE [err |-> FALSE, value |-> CHOOSE v \in fits : TRUE]

\* The bytes Set stores: a string, int, int64, float64 or bool is handed to the
\* Redis client as it is, which writes a string raw, a number in decimal and a
\* bool as 1 or 0; any other value is serialized to JSON.
SetData(value) ==
    IF value.type \in {"string", "int", "int64", "float64"} THEN value.lit
    ELSE IF value.type = "bool" THEN (IF value.lit = "true" THEN "1" ELSE "0")
    ELSE JSONMarshal(value)

\* appCache.Set.
Set(key, value) ==
    /\ kv' = [kv EXCEPT ![key] = <<[data |-> SetData(value), value |-> value]>>]
    /\ UNCHANGED gres
    /\ UNCHANGED notCache

\* appCache.Get into a pointer of the type of the value stored: redis.Nil for a
\* missing key, else the stored bytes through json.Unmarshal.
Get(key) ==
    /\ gres' = IF kv[key] = <<>>
               THEN [op |-> "Get", key |-> key, set |-> FALSE, err |-> TRUE]
               ELSE LET decoded == JSONUnmarshal(kv[key][1].data, kv[key][1].value.type)
                    IN IF decoded.err
                       THEN [op |-> "Get", key |-> key, set |-> TRUE, err |-> TRUE,
                             stored |-> kv[key][1].value]
                       ELSE [op |-> "Get", key |-> key, set |-> TRUE, err |-> FALSE,
                             stored |-> kv[key][1].value, value |-> decoded.value]
    /\ UNCHANGED kv
    /\ UNCHANGED notCache

\* appCache.Delete, or the key's expiry.
Delete(key) ==
    /\ kv' = [kv EXCEPT ![key] = <<>>]
    /\ UNCHANGED gres
    /\ UNCHANGED notCache

\* The key-value cache alone.
NextCache ==
    \/ \E key \in Keys, value \in Values : Set(key, value)
    \/ \E key \in Keys : Get(key)
    \/ \E key \in Keys : Delete(key)

SpecCache == Init /\ [][NextCache]_vars

\* The leaderboard service over its metadata cache, table and board.
\* ------------------------------------------------------------------ history listing
\* An optional field of a request: absent, or one value of S.
Opt(S) == {<<>>} \cup {<<x>> : x \in S}

\* The records a caller may store, and the listings a caller may ask for. The
\* creation time of a row is its position in the table.
HistoryReqs ==
    {CreateHistoryReq("42", "p1", 100), CreateHistoryReq("42", "p2", 200),
     CreateHistoryReq("404", "p1", 100)}

ListHistoriesReqs ==
    [Page : 1..MaxPage, PageSize : 1..MaxPageSize, LeaderboardID : LeaderboardIDs,
     EntryID : Opt({"p1"}), FromScore : Opt({150}), ToScore : Opt({150}),
     FromDate : Opt({2}), ToDate : Opt({2})]

\* Repository.Create on the histories table.
HistoryCreate(req) ==
    /\ Len(history) < MaxHistory
    /\ history' = Append(history, req)
    /\ UNCHANGED <<board, lbCache, upd, stream, group, cpc, cur, handled, handlerFailed>>
    /\ UNCHANGED subVars
    /\ UNCHANGED notPipeline
    /\ UNCHANGED startVars

\* The Where clauses of GetList: the creation times of the rows they keep.
Where(rows, req) ==
    {i \in 1..Len(rows) :
        /\ rows[i].LeaderboardID = req.LeaderboardID
        /\ req.EntryID # <<>> => rows[i].EntryID = req.EntryID[1]
        /\ req.FromScore # <<>> => rows[i].Score >= req.FromScore[1]
        /\ req.ToScore # <<>> => rows[i].Score <= req.ToScore[1]
        /\ req.FromDate # <<>> => i >= req.FromDate[1]
        /\ req.ToDate # <<>> => i <= req.ToDate[1]}

\* model.History: the row with its creation time.
History(rows, i) ==
    [LeaderboardID |-> rows[i].LeaderboardID, EntryID |-> rows[i].EntryID,
     Score |-> rows[i].Score, CreatedAt |-> i]

\* Order("created_at DESC") over the rows kept.
OrderByCreatedAtDesc(rows, kept) ==
    [k \in 1..Cardinality(kept) |->
        History(rows, CHOOSE i \in kept : Cardinality({j \in kept : j > i}) = k - 1)]

\* The offset GetList passes to the query.
Offset(req) == req.Page - 1

\* Offset(offset).Limit(limit) over an ordered result.
OffsetLimit(ordered, offset, limit) ==
    SubSeq(ordered, offset + 1,
           IF offset + limit < Len(ordered) THEN offset + limit ELSE Len(ordered))

\* HistoryRepository.GetList: count the rows kept, then fetch one page of them.
GetList(req) ==
    /\ LET kept == Where(history, req)
       IN hres' = [op |-> "GetList", req |-> req, rows |-> history,
                   total |-> Cardinality(kept),
                   items |-> OffsetLimit(OrderByCreatedAtDesc(history, kept),
                                         Offset(req), req.PageSize)]
    /\ UNCHANGED notList

NextList ==
    \/ \E req \in HistoryReqs : HistoryCreate(req)
    \/ \E req \in ListHistoriesReqs : GetList(req)

SpecList == Init /\ [][NextList]_vars

NextService ==
    \/ \E lb \in LeaderboardIDs, entry \in {"p1", "p2"}, score \in {100, 150},
          addErr \in BOOLEAN : UpdateEntryScore(lb, entry, score, addErr)
    \/ \E lb \in LeaderboardIDs, req \in UpdateLeaderboardReqs, repoErr \in BOOLEAN :
          UpdateLeaderboard(lb, req, repoErr)
    \/ \E lb \in LeaderboardIDs : GetLeaderboardDetail(lb)
    \/ \E lb \in LeaderboardIDs : CacheExpire(lb)

SpecService == Init /\ [][NextService]_vars

\* The event log alone: producers, the consumers of one group, and subscribers
\* that call EnsureGroup on the same stream and group.
NextGroup ==
    \/ \E message \in Payloads : Publish(message)
    \/ \E k \in Consumers : EnsureGroup(k)
    \/ EnsureGroupAgain
    \/ \E k \in Consumers : XReadGroup(k)
    \/ \E k \in Consumers, created \in BOOLEAN : Handler(k, created)
    \/ \E k \in Consumers : XAck(k)

SpecGroup == Init /\ [][NextGroup]_vars

\* The event log with a fair consumer loop: each goroutine started by Subscribe
\* keeps running, and the backend answers its reads and acknowledgements.
SpecGroupFair ==
    /\ Init
    /\ [][NextGroup]_vars
    /\ \A k \in Consumers :
           /\ WF_vars(XReadGroup(k))
           /\ WF_vars(\E created \in BOOLEAN : Handler(k, created))
           /\ WF_vars(XAck(k))

\* ------------------------------------------------------------------ update pipeline: claims
\* C5: when the handler of a delivered entry failed (the payload did not decode,
\* or recording the history failed), the failure is logged and the entry stays
\* in the group's pending list.
C5_FailedEntryStaysPending ==
    \A id \in handlerFailed : id \in group.pending

\* C6: every UpdateEntryScore that sets a score in the ranked store appends an
\* event describing that update to the leaderboard-updates stream.
C6_UpdatePublishesEvent ==
    [][(upd' # upd /\ ~upd'.err) =>
          /\ Len(stream') = Len(stream) + 1
          /\ stream'[Len(stream')].data =
                GobEncode(CreateHistoryReq(upd'.lb, upd'.entry, upd'.score))]_vars

\* The consumer waits for an entry and none is undelivered.
ConsumerIdle == cpc[HistoryConsumer] = "read" /\ group.exists /\ group.last = Len(stream)

\* C7: a successful score update is broadcast through the hub: once the update
\* has returned and the consumer has nothing left to handle, Broadcast has been
\* invoked.
C7_UpdateIsBroadcast ==
    (upd.op = "UpdateEntryScore" /\ ~upd.err /\ ConsumerIdle) => nBroadcast > 0

\* ------------------------------------------------------------------ hub: claims
\* The step in which the hub loop takes a request off the broadcast queue.
HubBroadcastStep == broadcast # <<>> /\ broadcast' = Tail(broadcast)

\* c is in none of the hub's indices once the step is taken.
InNoIndexAfter(c) ==
    /\ c \notin allClients'
    /\ \A t \in Topics : c \notin clients'[t]
    /\ \A u \in Users : c \notin userClients'[u]

\* C1: a client whose queue a broadcast finds full is unregistered by that
\* request: when the hub loop has handled the broadcast the client is in no
\* index (global set, topic sets, user set) and its queue is closed.
C1_OverflowUnregisters ==
    [][HubBroadcastStep =>
         \A c \in TargetClients(Head(broadcast)) :
            (~closed[c] /\ Len(send[c]) >= SendCap /\ closed'[c])
               => InNoIndexAfter(c)]_vars

\* C2: once the hub has processed Unregister(c), c is in no index, its queue is
\* closed, and no later request of the hub enqueues anything for c.
C2_UnregisterRemovesEverywhere ==
    [][\A c \in Clients :
         pc'[c] = "done" =>
            /\ InNoIndexAfter(c)
            /\ closed'[c]
            /\ (pc[c] = "done" => Len(send'[c]) <= Len(send[c]))]_vars

\* C3: topic isolation: the message of Broadcast(T, ...) is enqueued only for
\* clients that are subscribed to T.
C3_TopicIsolation ==
    [][(HubBroadcastStep /\ Head(broadcast).UserID = NoUser
                         /\ Head(broadcast).Topic \in Topics) =>
         \A c \in Clients :
            send'[c] # send[c] => Head(broadcast).Topic \in subscriptions[c]]_vars

\* C4: when the hub processes Broadcast(T, ...), every client subscribed to T
\* whose queue has room gets exactly one copy of the message enqueued.
C4_BroadcastReachesSubscribers ==
    [][(HubBroadcastStep /\ Head(broadcast).UserID = NoUser
                         /\ Head(broadcast).Topic \in Topics) =>
         \A c \in clients[Head(broadcast).Topic] :
            (/\ Head(broadcast).Topic \in subscriptions[c]
             /\ ~closed[c]
             /\ Len(send[c]) < SendCap)
               => send'[c] = Append(send[c], Head(broadcast).Message)]_vars

\* ------------------------------------------------------------------ ranked store: claims
Min(a, b) == IF a < b THEN a ELSE b

ResultMembers(entries) == {entries[i].Member : i \in 1..Len(entries)}

\* The entries are distinct members of b, each with the score it has in b.
CurrentEntries(b, entries) ==
    /\ \A i \in 1..Len(entries) :
          entries[i].Member \in DOMAIN b /\ entries[i].Score = b[entries[i].Member]
    /\ \A i, j \in 1..Len(entries) : entries[i].Member = entries[j].Member => i = j

\* C8: GetTopN(board, 0) returns an empty sequence and no error, whatever the
\* board contains.
C8_TopZeroIsEmpty ==
    (rres.op = "GetTopN" /\ rres.n = 0) => (~rres.err /\ rres.entries = <<>>)

\* C9: for n >= 1, GetTopN returns exactly min(n, size) entries, each a distinct
\* member with its current score, in non-increasing score order (strictly
\* descending when the scores differ), and no member left out has a higher
\* score than a member returned; asking for more than are present returns all
\* of them without error.
C9_TopNHighest ==
    (rres.op = "GetTopN" /\ rres.n >= 1) =>
        LET b == rres.seen
            e == rres.entries
        IN /\ ~rres.err
           /\ Len(e) = Min(rres.n, ZCard(b))
           /\ CurrentEntries(b, e)
           /\ \A i, j \in 1..Len(e) : i < j => e[i].Score >= e[j].Score
           /\ \A i, j \in 1..Len(e) :
                 (i < j /\ b[e[i].Member] # b[e[j].Member]) => e[i].Score > e[j].Score
           /\ \A x \in DOMAIN b \ ResultMembers(e) :
                 \A i \in 1..Len(e) : b[x] <= e[i].Score
           /\ rres.n >= ZCard(b) => ResultMembers(e) = DOMAIN b

C9_Witness ==
    /\ rres.op = "GetTopN"
    /\ rres.n = 2
    /\ ZCard(rres.seen) = 3
    /\ Len(rres.entries) = 2
    /\ rres.entries[1].Score > rres.entries[2].Score
    /\ \E x \in DOMAIN rres.seen : x \notin ResultMembers(rres.entries)

\* The 1-based rank of m in b when equal scores are ordered by Before.
RankBy(b, m, Before(_, _)) ==
    1 + Cardinality({x \in DOMAIN b : b[x] > b[m] \/ (b[x] = b[m] /\ Before(x, m))})

LexGreater(a, b) == LexLess(b, a)

\* C10 as stated: of two members with the same score, the one with the lexically
\* smaller identifier has the better rank, in GetTopN, GetRank and GetAroundMember.
C10_TiesAscending ==
    /\ (rres.op \in {"GetTopN", "GetAroundMember"} /\ ~rres.err) =>
          \A i, j \in 1..Len(rres.entries) :
             (i < j /\ rres.entries[i].Score = rres.entries[j].Score)
                => LexLess(rres.entries[i].Member, rres.entries[j].Member)
    /\ (rres.op = "GetRank" /\ ~rres.err) =>
          rres.rank = RankBy(rres.seen, rres.member, LexLess)

\* C10 as amended: of two members with the same score, the one with the
\* lexically larger identifier has the better (smaller) rank, in GetTopN,
\* GetRank and GetAroundMember.
C10_TiesDescending ==
    /\ (rres.op \in {"GetTopN", "GetAroundMember"} /\ ~rres.err) =>
          \A i, j \in 1..Len(rres.entries) :
             (i < j /\ rres.entries[i].Score = rres.entries[j].Score)
                => LexGreater(rres.entries[i].Member, rres.entries[j].Member)
    /\ (rres.op = "GetRank" /\ ~rres.err) =>
          rres.rank = RankBy(rres.seen, rres.member, LexGreater)

C10_Witness ==
    /\ rres.op = "GetRank"
    /\ ~rres.err
    /\ rres.rank = 2
    /\ \E x \in DOMAIN rres.seen :
          x # rres.member /\ rres.seen[x] = rres.seen[rres.member]

Max(a, b) == IF a > b THEN a ELSE b

\* C11: GetRank is 1-based and agrees with GetTopN: on an unchanged board, if m
\* is at 0-based index i of GetTopN(board, N), GetRank(board, m) returns rank
\* i+1 and the score of that entry (sequences here are 1-based: index k is i+1).
C11_RankAgreesWithTopN ==
    (rres.op = "GetRank" /\ ~rres.err /\ rres.stable) =>
        \A n \in 0..MaxN :
           LET top == ZRevRangeWithScores(rres.seen, 0, TopNStop(n))
           IN \A k \in 1..Len(top) :
                 top[k].Member = rres.member =>
                    rres.rank = k /\ rres.score = top[k].Score

C11_Witness ==
    /\ rres.op = "GetRank"
    /\ ~rres.err
    /\ rres.stable
    /\ ZCard(rres.seen) = 3
    /\ rres.rank = 2
    /\ ZRevRangeWithScores(rres.seen, 0, TopNStop(MaxN))[2].Member = rres.member

\* C12: with no mutation between its two reads, GetAroundMember for a member at
\* 1-based rank r on a board of size S returns exactly the entries of ranks
\* max(1, r-radius) .. min(S, r+radius) in rank order; the window has at most
\* 2*radius+1 entries and contains the member.
C12_WindowAroundMember ==
    (rres.op = "GetAroundMember" /\ ~rres.err /\ rres.stable) =>
        LET b == rres.seen
            e == rres.entries
            r == RankBy(b, rres.member, LexGreater)
            lo == Max(1, r - rres.radius)
            hi == Min(ZCard(b), r + rres.radius)
        IN /\ Len(e) = hi - lo + 1
           /\ CurrentEntries(b, e)
           /\ \A k \in 1..Len(e) : RankBy(b, e[k].Member, LexGreater) = lo + k - 1
           /\ Len(e) <= 2 * rres.radius + 1
           /\ rres.member \in ResultMembers(e)

C12_Witness ==
    /\ rres.op = "GetAroundMember"
    /\ ~rres.err
    /\ rres.stable
    /\ rres.radius = 1
    /\ ZCard(rres.seen) = 3
    /\ rres.rank = 0
    /\ Len(rres.entries) = 2
    /\ rres.entries[1].Member = rres.member

\* ------------------------------------------------------------------ hub: registry and shutdown claims
\* C13: while the hub is between requests, a live client whose registration is
\* not in hand-over is in topic T's set exactly when T is in its own
\* subscription set; so a client that unsubscribed from T is not in T's set.
C13_TopicSetMatchesSubscriptions ==
    \A c \in Clients : \A t \in Topics :
       (pc[c] \in {"read", "confirm"} /\ ~closed[c]) =>
          (c \in clients[t] <=> t \in subscriptions[c])

\* The registry indices differ after the step.
RegistryChanged ==
    clients' # clients \/ allClients' # allClients \/ userClients' # userClients

\* The case of the hub loop a step takes, "none" for a step of another process.
HubCase ==
    IF \E c \in Clients : pc[c] = "register" /\ pc'[c] = "confirm" THEN "register"
    ELSE IF HubBroadcastStep THEN "broadcast"
    ELSE IF \E c \in Clients :
               pc[c] = "unregister" /\ (pc'[c] = "done" \/ (panicked' /\ ~panicked))
    THEN "unregister"
    ELSE "none"

\* C14: every mutation of the registry indices is made by the hub loop while it
\* holds the registry lock exclusively, so the accessors that take the read
\* lock never read an index while it is being changed.
C14_MutationsUnderExclusiveLock ==
    [][RegistryChanged => LockHeld(HubCase) = "Lock"]_vars

\* C15: a read side that ended is never left waiting to hand its client to a
\* hub loop that has returned: the unregistration is always still to come.
C15_ReadEndIsUnregistered ==
    \A c \in Clients : pc[c] = "unregister" => hubRunning

\* C17: the shutdown hook closes the transport of every live connection,
\* subscribed to a topic or not.
C17_ShutdownClosesTransports ==
    [][(~ctxDone /\ ctxDone') =>
          \A c \in Clients : ConnOpen(c) => ~ConnOpen(c)']_vars

\* C18: once the hub's context is cancelled no Broadcast, BroadcastToUser or
\* BroadcastToAll request enters the broadcast queue.
C18_NoBroadcastAfterShutdown ==
    [][ctxDone => Len(broadcast') <= Len(broadcast)]_vars

\* C19: a BroadcastToUser(u) request is enqueued on every live connection whose
\* user id is u and whose queue has room, whatever its subscriptions.
C19_UserBroadcastReachesConnections ==
    [][(HubBroadcastStep /\ Head(broadcast).UserID # NoUser) =>
          \A c \in Clients :
             (userID[c] = Head(broadcast).UserID /\ ConnOpen(c) /\ ~closed[c]
                /\ Len(send[c]) < SendCap)
                => send'[c] = Append(send[c], Head(broadcast).Message)]_vars

\* ------------------------------------------------------------------ event log: consumer claims
\* C16: after the subscriber's Stop has run, each consumer loop finishes the
\* handler invocation it is in and performs no further read: at most the read
\* that was already waiting when Stop ran still delivers an entry.
C16_StopEndsConsumerLoop ==
    subStop.done => group.last <= subStop.last + 1

\* A step that is a call of EnsureGroup.
EnsureGroupStep == nEnsure' = nEnsure + 1

\* C20: EnsureGroup is idempotent: no call returns an error because the group
\* exists, and a call that finds the group leaves its cursor and pending list
\* as they are, so any number of calls leave what the first one made.
C20_EnsureGroupIdempotent ==
    [][EnsureGroupStep =>
          /\ egRes'.err = ""
          /\ group'.exists
          /\ group.exists => group' = group
          /\ ~group.exists => (group'.last = Len(stream) /\ group'.pending = {})]_vars

C20_Witness ==
    /\ egRes.op = "EnsureGroup"
    /\ nEnsure = 2
    /\ egRes.before.exists
    /\ egRes.before.pending # {}
    /\ egRes.before.last = 1
    /\ egRes.err = ""

\* C28: after AddScore(member, score) returns, the member is on the board
\* exactly once, with the score of that call; every other member is as it was;
\* and the same AddScore again leaves the board as it is.
C28_AddScoreUpserts ==
    rres.op = "AddScore" =>
        LET m == rres.member
            top == ZRevRangeWithScores(board, 0, -1)
        IN /\ DOMAIN board = DOMAIN rres.before \cup {m}
           /\ board[m] = rres.score
           /\ \A x \in DOMAIN rres.before \ {m} : board[x] = rres.before[x]
           /\ Cardinality({i \in 1..Len(top) : top[i].Member = m}) = 1
           /\ \A i \in 1..Len(top) : top[i].Member = m => top[i].Score = rres.score
           /\ ZAdd(board, m, rres.score) = board

\* An AddScore that replaced the score of a member already on the board.
C28_Witness ==
    /\ rres.op = "AddScore"
    /\ rres.member \in DOMAIN rres.before
    /\ rres.before[rres.member] # rres.score
    /\ ZCard(board) >= 2

\* C29: after RemoveMember(m) returns, m is absent, no other member is gone and
\* no score has changed, the members that ranked below m are one rank higher,
\* the members that ranked above m keep their rank, and no error is returned;
\* when m was absent the board is as it was.
C29_RemoveMemberFrame ==
    rres.op = "RemoveMember" =>
        LET m == rres.member
            b0 == rres.before
        IN /\ ~rres.err
           /\ DOMAIN board = DOMAIN b0 \ {m}
           /\ \A x \in DOMAIN board : board[x] = b0[x]
           /\ m \in DOMAIN b0 =>
                  \A x \in DOMAIN board :
                      OneBased(ZRevRank(board, x)) =
                          IF ZRevRank(b0, x) > ZRevRank(b0, m)
                          THEN OneBased(ZRevRank(b0, x)) - 1
                          ELSE OneBased(ZRevRank(b0, x))
           /\ m \notin DOMAIN b0 => board = b0

\* A removal from the middle of the board: one member above, one below.
C29_Witness ==
    /\ rres.op = "RemoveMember"
    /\ rres.member \in DOMAIN rres.before
    /\ \E x, y \in DOMAIN board :
           /\ ZRevRank(rres.before, x) < ZRevRank(rres.before, rres.member)
           /\ ZRevRank(rres.before, y) > ZRevRank(rres.before, rres.member)

\* The board a returned GetRank or GetAroundMember is known to have read the
\* member's position from.
FirstRead(res) == IF res.err \/ res.op = "GetRank" \/ res.stable THEN {res.seen} ELSE {}

HandledIds == {handled[i].id : i \in 1..Len(handled)}

\* The consumers whose read loop is running.
Subscribed == {k \in Consumers : cpc[k] \in {"read", "handle", "ack"}}

\* C21: a group starts at the tail of the log: every entry a consumer of the
\* group holds, has pending or has handled was appended after the group was
\* created, so the first entry handled is one published after the creation.
C21_GroupStartsAtTail ==
    group.exists =>
        /\ \A id \in group.pending \cup HandledIds : id > group.createdAt
        /\ \A k \in Consumers : cpc[k] \in {"handle", "ack"} => cur[k] > group.createdAt
        /\ group.last >= group.createdAt

\* The group was created on a stream that had an entry, and a later entry has
\* been handled while the earlier one has not.
C21_Witness ==
    /\ group.exists
    /\ group.createdAt >= 1
    /\ handled # <<>>
    /\ handled[1].id = group.createdAt + 1
    /\ 1 \notin HandledIds

\* C22: no entry is handed to a handler twice, by the same consumer or by two
\* consumers of the group, and no two consumers hold the same entry.
C22_HandledAtMostOnce ==
    /\ \A i, j \in 1..Len(handled) : handled[i].id = handled[j].id => i = j
    /\ \A k1, k2 \in Consumers :
           k1 # k2 /\ cpc[k1] \in {"handle", "ack"} /\ cpc[k2] \in {"handle", "ack"}
               => cur[k1] # cur[k2]

\* Two consumers of the group are in their handlers at once, and one of them has
\* handled an entry before.
C22_Witness ==
    /\ \A k \in Consumers : cpc[k] = "ack"
    /\ Len(handled) = 2
    /\ handled[1].consumer # handled[2].consumer

\* C23: under a fair consumer loop, an entry published after the group exists,
\* with a consumer of the group subscribed, is eventually handed to a handler.
C23_PublishedIsHandled ==
    \A id \in 1..MaxPublished :
        (/\ id <= Len(stream)
         /\ group.exists
         /\ id > group.createdAt
         /\ Subscribed # {}) ~> (id \in HandledIds)

\* An entry published after the creation of the group has been handled by the
\* second consumer while the first holds another.
C23_Witness ==
    /\ group.exists
    /\ Len(stream) = MaxPublished
    /\ \E i \in 1..Len(handled) : handled[i].id = MaxPublished
    /\ HandledIds = (group.createdAt + 1)..MaxPublished

\* The hub takes the registration of client c.
HubRegisterStep(c) == pc[c] = "register" /\ pc'[c] = "confirm"

\* C24: when the hub has processed Register(c, t), c is in the set of t and in
\* the global set; c is in the set of its user exactly when it has a user;
\* every other client's memberships, and c's in every other topic and user set,
\* are as before.
C24_RegisterFrame ==
    [][\A c \in Clients :
          HubRegisterStep(c) =>
              LET t == regTopic[c]
                  u == userID[c]
              IN /\ c \in clients'[t]
                 /\ c \in allClients'
                 /\ u # NoUser => c \in userClients'[u]
                 /\ u = NoUser => \A v \in Users : c \notin userClients'[v]
                 /\ \A t2 \in Topics :
                        /\ clients'[t2] \ {c} = clients[t2] \ {c}
                        /\ t2 # t => clients'[t2] = clients[t2]
                 /\ allClients' \ {c} = allClients \ {c}
                 /\ \A v \in Users :
                        /\ userClients'[v] \ {c} = userClients[v] \ {c}
                        /\ v # u => userClients'[v] = userClients[v]]_vars

\* A client with a user has been registered to a topic that another client,
\* without a user, is in, and is itself in a second topic.
C24_Witness ==
    \E c \in Clients :
        /\ pc[c] = "confirm"
        /\ userID[c] # NoUser
        /\ c \in userClients[userID[c]]
        /\ c \in allClients
        /\ \E d \in Clients \ {c} : d \in clients[regTopic[c]] /\ c \in clients[regTopic[c]]
        /\ \E t2 \in Topics \ {regTopic[c]} : c \in clients[t2]

\* C25: handling one broadcast request, the hub loop offers the message to every
\* target, which takes it at once or is put on the overflow path (queue closed,
\* nothing enqueued), and the loop goes on to its next request.
C25_BroadcastNeverStalls ==
    [][HubBroadcastStep =>
          /\ ~panicked'
          /\ \A c \in TargetClients(Head(broadcast)) :
                 \/ send'[c] = Append(send[c], Head(broadcast).Message)
                 \/ ~closed[c] /\ closed'[c] /\ send'[c] = send[c]]_vars

\* The writePump of client c writes a message to the transport.
WriteStep(c) == Len(send'[c]) < Len(send[c])

\* C26: a client's queue changes only at its two ends: the writePump writes
\* the oldest message and leaves the others in their order, and a message is
\* enqueued behind all the messages enqueued before it.
C26_QueueIsFifo ==
    [][\A c \in Clients :
          /\ WriteStep(c) =>
                 /\ Receive(send[c]).message = send[c][1]
                 /\ send'[c] = Tail(send[c])
          /\ ~WriteStep(c) =>
                 \/ send'[c] = send[c]
                 \/ /\ Len(send'[c]) = Len(send[c]) + 1
                    /\ SubSeq(send'[c], 1, Len(send[c])) = send[c]]_vars

\* A confirmation and, behind it, a broadcast are in the queue of a client
\* whose writePump has written the first of them in the next state.
C26_Witness ==
    \E c \in Clients :
        /\ Len(send[c]) = 2
        /\ send[c][1].type = MessageTypeSubscribe
        /\ send[c][2].type = MessageTypeEntryUpdate
        /\ ENABLED WriteMessage(c)

\* The client's handleMessage sends the confirmation of a subscribe.
ConfirmStep(c) == pc[c] = "confirm" /\ pc'[c] = "read"

\* The client's handleMessage handles an unsubscribe from a topic it had.
UnsubscribeStep(c) ==
    nInbound' = nInbound + 1 /\ pc' = pc /\ subscriptions'[c] # subscriptions[c]

\* C27: every subscribe and unsubscribe is acknowledged: the confirmation, of
\* the same type and topic, is enqueued on the client's queue, whatever the
\* fill level of the queue.
C27_AlwaysAcknowledged ==
    [][\A c \in Clients :
          /\ ConfirmStep(c) =>
                 send'[c] = Append(send[c], Message(MessageTypeSubscribe, regTopic[c]))
          /\ UnsubscribeStep(c) =>
                 \A t \in subscriptions[c] \ subscriptions'[c] :
                     send'[c] = Append(send[c], Message(MessageTypeUnsubscribe, t))]_vars

\* C31: when the ranked store fails the AddScore, UpdateEntryScore returns an
\* error, the score-update failure, and not success.
C31_StoreFailureFailsUpdate ==
    (upd.op = "UpdateEntryScore" /\ upd.storeFailed) =>
        upd.err /\ upd.code = "ErrUpdateScore"

\* An update of a known leaderboard whose AddScore failed.
C31_Witness ==
    /\ upd.op = "UpdateEntryScore"
    /\ upd.storeFailed
    /\ upd.lb \in DOMAIN lbRepo
    /\ upd.err

\* C32: an UpdateEntryScore for an id that neither the metadata cache nor the
\* table has returns the leaderboard-not-found error and leaves the board alone.
C32_UnknownLeaderboardIsNotFound ==
    [][(upd' # upd /\ upd'.lb \notin DOMAIN lbRepo
            /\ \A e \in lbCache : e.ID # upd'.lb) =>
          /\ upd'.err
          /\ upd'.code = "ErrLeaderboardNotFound"
          /\ board' = board]_vars

\* An update for an unknown id has failed on a board that has entries.
C32_Witness ==
    /\ upd.op = "UpdateEntryScore"
    /\ upd.lb \notin DOMAIN lbRepo
    /\ upd.code = "ErrLeaderboardNotFound"
    /\ ZCard(board) >= 1

\* C37: GetLeaderboardDetail returns the name, description and expiry the
\* table holds, those of the last successful UpdateLeaderboard.
C37_DetailIsFresh ==
    (svc.op = "GetLeaderboardDetail" /\ svc.code = "") =>
        /\ svc.dto.Name = svc.row.Name
        /\ svc.dto.Description = svc.row.Description
        /\ svc.dto.ExpiredAt = svc.row.ExpiredAt

\* C33: a Get of a key that holds the value of the last Set succeeds and yields
\* a value equal to the one stored.
C33_SetGetRoundTrip ==
    (gres.op = "Get" /\ gres.set) => ~gres.err /\ gres.value = gres.stored

\* C34: no client's queue is closed a second time and no message is sent on a
\* closed queue: the process never dies of either.
C34_QueueClosedOnceNoSendAfter == ~panicked

\* Every board over the members and scores of the model.
AllBoards == UNION {[D -> Scores] : D \in SUBSET Members}

\* C35: what GetRank and GetAroundMember return under concurrent AddScore and
\* RemoveMember is what one state of the board gives: the rank and the score
\* of GetRank are those of the member on one and the same board, and the window
\* of GetAroundMember contains the member asked for.
C35_TwoReadsAreOneInstant ==
    /\ (rres.op = "GetRank" /\ ~rres.err) =>
           \E b \in AllBoards :
               /\ rres.member \in DOMAIN b
               /\ b[rres.member] = rres.score
               /\ OneBased(ZRevRank(b, rres.member)) = rres.rank
    /\ (rres.op = "GetAroundMember" /\ ~rres.err) =>
           \E i \in 1..Len(rres.entries) : rres.entries[i].Member = rres.member

\* The positions a consumer's goroutine passes through, in order.
ConsumerCycle ==
    {<<"start", "read">>, <<"start", "failed">>, <<"read", "handle">>,
     <<"handle", "ack">>, <<"ack", "read">>}

\* C36: a consumer goes from reading to handling to acknowledging and back; the
\* entry it handles stays pending until its handler has returned; an entry
\* leaves the pending list only by the acknowledgement of the consumer whose
\* handler call for it has returned; and a consumer reads its next entry only
\* when the one before is handled and acknowledged.
C36_AckFollowsHandler ==
    [][\A k \in Consumers :
          /\ cpc'[k] # cpc[k] => <<cpc[k], cpc'[k]>> \in ConsumerCycle
          /\ cpc[k] = "handle" => cur[k] \in group.pending /\ cur[k] \in group'.pending
          /\ (cpc[k] = "ack" /\ cpc'[k] = "read") =>
                 /\ \E i \in 1..Len(handled) : handled[i] = [consumer |-> k, id |-> cur[k]]
                 /\ group.pending \ group'.pending = {cur[k]}
          /\ (cpc[k] = "read" /\ cpc'[k] = "handle") =>
                 /\ cur[k] \notin group.pending
                 /\ cur[k] # 0 => cur[k] \in HandledIds
                 /\ cur'[k] \notin HandledIds
          /\ (\A j \in Consumers : ~(cpc[j] = "ack" /\ cpc'[j] = "read"))
                 => group.pending \subseteq group'.pending]_vars

\* A consumer has acknowledged one entry after its handler and holds the next.
C36_Witness ==
    \E k \in Consumers :
        /\ cpc[k] = "handle"
        /\ \E i \in 1..Len(handled) : handled[i].consumer = k /\ handled[i].id < cur[k]
        /\ cur[k] \in group.pending
        /\ \A i \in 1..Len(handled) : handled[i].id \notin group.pending

\* ------------------------------------------------------------------ history handler: claims
\* Entries the history consumer has handled whose payload decodes.
DecodedHandled ==
    {i \in 1..Len(handled) : ~decodeMessage(stream[handled[i].id]).err}

\* C38: every consumed event whose payload decodes has exactly one history-record
\* call, which carries the event's leaderboard id, entry id and score and is made
\* with a context that is still live, also after the start-up has completed.
C38_RecordOnLiveContext ==
    \A i \in DecodedHandled :
        /\ Cardinality({j \in 1..Len(recordCalls) :
                           recordCalls[j].id = handled[i].id}) = 1
        /\ \A j \in 1..Len(recordCalls) :
               recordCalls[j].id = handled[i].id =>
                   /\ recordCalls[j].req = stream[handled[i].id].data.value
                   /\ recordCalls[j].ctx = "live"

\* ------------------------------------------------------------------ history listing: claims
\* The filtered rows of a listing, newest first.
Filtered(res) == OrderByCreatedAtDesc(res.rows, Where(res.rows, res.req))

\* C39: for page p and page size s GetList returns the items at positions
\* (p-1)*s+1 through p*s of the filtered records, newest first, and total is the
\* number of all filtered records.
C39_PageIsItsSlice ==
    hres.op = "GetList" =>
        LET all == Filtered(hres)
            first == (hres.req.Page - 1) * hres.req.PageSize + 1
            last == hres.req.Page * hres.req.PageSize
        IN /\ hres.total = Len(all)
           /\ hres.items = [k \in 1..(Min(last, Len(all)) - first + 1) |->
                                all[first + k - 1]]
====
